---- MODULE Spec2Model ----
(***************************************************************************)
(* A model of pytable.Table (src/pytable.py): a table is a list of column  *)
(* names and a list of row dicts.  Python objects that can be shared (the  *)
(* column list of a table, each row dict) live in heaps indexed by object  *)
(* identity, so that a filtered table sharing its rows and its column list *)
(* with the table it came from is modelled as the code builds it.          *)
(***************************************************************************)
EXTENDS Integers, Sequences, FiniteSets, TLC

\* ------------------------------------------------------------------ bounds
MaxRows == 2
MaxCols == 2
MaxTables == 2
MaxCalls == 3

\* ------------------------------------------------------------------ values
\* Python's None, kept apart from the integer cell values.
None == 0
Val == {1}
ValN == {None} \cup Val
\* Column names used as arguments of the table operations.
Names == {"a", "b"}

Range(s) == {s[i] : i \in DOMAIN s}
MinOf(x, y) == IF x <= y THEN x ELSE y
SeqsUpTo(S, n) == UNION {[1..k -> S] : k \in 0..n}

\* ------------------------------------------------------------- Python dict
\* A dict is the sequence of its <<key, value>> items in insertion order.
DictKeys(d) == [i \in DOMAIN d |-> d[i][1]]
DictValues(d) == [i \in DOMAIN d |-> d[i][2]]
HasKey(d, k) == \E i \in DOMAIN d : d[i][1] = k
DictGet(d, k) == d[CHOOSE i \in DOMAIN d : d[i][1] = k][2]
DictGetDefault(d, k, default) == IF HasKey(d, k) THEN DictGet(d, k) ELSE default
DictSet(d, k, v) ==
  IF HasKey(d, k)
  THEN [i \in DOMAIN d |-> IF d[i][1] = k THEN <<k, v>> ELSE d[i]]
  ELSE Append(d, <<k, v>>)
DictDel(d, k) == SelectSeq(d, LAMBDA e : e[1] # k)

\* dict(zip(ks, vs)): zip stops at the shorter argument; a repeated key keeps
\* its first position and takes its last value.
RECURSIVE DictZipFrom(_, _, _, _)
DictZipFrom(d, ks, vs, i) ==
  IF i > MinOf(Len(ks), Len(vs)) THEN d
  ELSE DictZipFrom(DictSet(d, ks[i], vs[i]), ks, vs, i + 1)
DictZip(ks, vs) == DictZipFrom(<<>>, ks, vs, 1)

\* ------------------------------------------------------------------- state
VARIABLES
  tables,  \* the Table objects: [columns |-> list identity, rows |-> row dict identities]
  lists,   \* heap of column lists: identity -> sequence of names
  dicts,   \* heap of row dicts: identity -> dict
  last,    \* the last call: its operation, the table called, its outcome
  calls    \* the number of calls made

vars == <<tables, lists, dicts, last, calls>>

ColumnsOf(t) == lists[tables[t].columns]
RowsOf(t) == [i \in DOMAIN tables[t].rows |-> dicts[tables[t].rows[i]]]

\* The n smallest identities not in use.
RECURSIVE FreshIds(_, _)
FreshIds(used, n) ==
  IF n = 0 THEN <<>>
  ELSE LET id == CHOOSE i \in 1..(Cardinality(used) + 1) : i \notin used
       IN <<id>> \o FreshIds(used \cup {id}, n - 1)

\* The heap h with object id added (or replaced).
Store(h, id, x) == [j \in DOMAIN h \cup {id} |-> IF j = id THEN x ELSE h[j]]

\* Object identities are renumbered in the order the tables refer to them, and
\* objects no table refers to any more are collected.
RECURSIVE Dedup(_, _)
Dedup(s, seen) ==
  IF s = <<>> THEN <<>>
  ELSE IF Head(s) \in seen THEN Dedup(Tail(s), seen)
  ELSE <<Head(s)>> \o Dedup(Tail(s), seen \cup {Head(s)})
RECURSIVE Flatten(_)
Flatten(ss) == IF ss = <<>> THEN <<>> ELSE Head(ss) \o Flatten(Tail(ss))
IndexOf(s, x) == CHOOSE i \in DOMAIN s : s[i] = x

\* A run makes at most MaxCalls calls.
CanCall == calls < MaxCalls

\* The state after a call.
Commit(tbls, ls, ds, call) ==
  LET lorder == Dedup([t \in DOMAIN tbls |-> tbls[t].columns], {})
      dorder == Dedup(Flatten([t \in DOMAIN tbls |-> tbls[t].rows]), {})
  IN /\ calls' = calls + 1
     /\ tables' = [t \in DOMAIN tbls |->
                     [columns |-> IndexOf(lorder, tbls[t].columns),
                      rows |-> [i \in DOMAIN tbls[t].rows |->
                                  IndexOf(dorder, tbls[t].rows[i])]]]
     /\ lists' = [i \in DOMAIN lorder |-> ls[lorder[i]]]
     /\ dicts' = [i \in DOMAIN dorder |-> ds[dorder[i]]]
     /\ last' = call

\* status is "ok" when the call returned, else the exception it raised.
Call(op, t, status) == [op |-> op, tbl |-> t, status |-> status]
Raised(call, exception) == [call EXCEPT !.status = exception]

\* Table(columns), lines 19-44: the given list object becomes the table's
\* column list; the table is empty.
NewTable(listId) == [columns |-> listId, rows |-> <<>>]

\* ------------------------------------------------------------------ _addrow
\* The data of one row: a list (or tuple) of values, a dict, or an object
\* with attributes.  A list of the wrong length raises whatever it holds, so
\* one shorter and one longer list stand for all of them.
ListData(cols) ==
  {[kind |-> "list", items |-> s] : s \in [1..Len(cols) -> ValN]}
    \cup {[kind |-> "list", items |-> [i \in 1..(Len(cols) + 1) |-> 1]]}
    \cup {[kind |-> "list", items |-> [i \in 1..n |-> 1]] : n \in {Len(cols) - 1} \cap Nat}
DictData == {[kind |-> "dict", items |-> [k \in S |-> 1]] : S \in SUBSET Names}
ObjectData == {[kind |-> "object", items |-> [k \in {"a"} |-> 1]]}
RowData(cols) == ListData(cols) \cup DictData \cup ObjectData
\* add_rows(*datalist) is called with one row or with two.
DataLists(cols) == UNION {[1..n -> RowData(cols)] : n \in {1, 2}}

\* data.get(k, None) and getattr(data, k, None)
Lookup(data, k) == IF k \in DOMAIN data.items THEN data.items[k] ELSE None

\* _addrow, lines 85-97: the outcome of adding one row to a table whose
\* column list is cols.
AddRowValues(cols, data) ==
  IF data.kind = "dict" THEN [i \in DOMAIN cols |-> Lookup(data, cols[i])]
  ELSE IF data.kind = "object" THEN [i \in DOMAIN cols |-> Lookup(data, cols[i])]
  ELSE data.items
AddRowRaises(cols, data) ==
  data.kind = "list" /\ Len(data.items) # Len(cols)

\* add_rows, lines 110-113: rows are added one at a time; a row that raises
\* stops the loop with the rows before it already appended.
RECURSIVE AddRowsLoop(_, _, _, _, _)
AddRowsLoop(tbls, ds, t, datalist, i) ==
  IF i > Len(datalist) THEN [tables |-> tbls, dicts |-> ds, status |-> "ok"]
  ELSE IF AddRowRaises(lists[tbls[t].columns], datalist[i])
  THEN [tables |-> tbls, dicts |-> ds, status |-> "ValueError"]
  ELSE LET id == FreshIds(DOMAIN ds, 1)[1]
           row == DictZip(lists[tbls[t].columns],
                          AddRowValues(lists[tbls[t].columns], datalist[i]))
       IN AddRowsLoop([tbls EXCEPT ![t].rows = Append(@, id)],
                      Store(ds, id, row),
                      t, datalist, i + 1)

add_rows(t, datalist) ==
  /\ CanCall
  /\ Len(tables[t].rows) + Len(datalist) <= MaxRows
  /\ LET r == AddRowsLoop(tables, dicts, t, datalist, 1)
     IN Commit(r.tables, lists, r.dicts, Call("add_rows", t, r.status))

\* ------------------------------------------------------------ rename_column
\* lines 126-131.  self.columns.index(oldname) raises ValueError when oldname
\* is absent; otherwise the column list is changed in place and every row of
\* this table is replaced by a new dict zipping the columns with the old
\* dict's values.
FirstIndex(s, x) == CHOOSE i \in DOMAIN s : s[i] = x /\ \A j \in 1..(i - 1) : s[j] # x

rename_column(t, oldname, newname) ==
  /\ CanCall
  /\ LET cols == ColumnsOf(t)
         call == Call("rename_column", t, "ok")
     IN IF oldname \notin Range(cols)
        THEN Commit(tables, lists, dicts, Raised(call, "ValueError"))
        ELSE LET newcols == [cols EXCEPT ![FirstIndex(cols, oldname)] = newname]
                 rows == tables[t].rows
                 ids == FreshIds(DOMAIN dicts, Len(rows))
                 ds == [j \in DOMAIN dicts \cup Range(ids) |->
                          IF j \in Range(ids)
                          THEN DictZip(newcols, DictValues(dicts[rows[IndexOf(ids, j)]]))
                          ELSE dicts[j]]
             IN Commit([tables EXCEPT ![t].rows = ids],
                       [lists EXCEPT ![tables[t].columns] = newcols], ds, call)

\* ------------------------------------------------------------ remove_column
\* lines 143-147.  self.columns is rebound to a new list without colname, then
\* colname is deleted from each row dict in turn; del raises KeyError at the
\* first row that lacks it, with the rows before it already changed.
RECURSIVE DelLoop(_, _, _, _)
DelLoop(ds, rows, colname, i) ==
  IF i > Len(rows) THEN [dicts |-> ds, status |-> "ok"]
  ELSE IF ~HasKey(ds[rows[i]], colname) THEN [dicts |-> ds, status |-> "KeyError"]
  ELSE DelLoop([ds EXCEPT ![rows[i]] = DictDel(@, colname)], rows, colname, i + 1)

remove_column(t, colname) ==
  /\ CanCall
  /\ LET cols == ColumnsOf(t)
         lid == FreshIds(DOMAIN lists, 1)[1]
         r == DelLoop(dicts, tables[t].rows, colname, 1)
     IN Commit([tables EXCEPT ![t].columns = lid],
               Store(lists, lid, SelectSeq(cols, LAMBDA c : c # colname)),
               r.dicts,
               Call("remove_column", t, r.status))

\* --------------------------------------------------------------- set_column
\* The value given: a scalar, or a list (or tuple) of values.
ColValues ==
  {[kind |-> "scalar", items |-> <<v>>] : v \in ValN}
    \cup {[kind |-> "list", items |-> s] : s \in SeqsUpTo(ValN, MaxRows)}

\* lines 162-176.  A new column name is appended to the column list first;
\* the length of a list value is checked after that.
RECURSIVE SetLoop(_, _, _, _, _)
SetLoop(ds, rows, colname, colvalue, i) ==
  IF i > Len(rows) THEN ds
  ELSE SetLoop([ds EXCEPT ![rows[i]] =
                  DictSet(@, colname,
                          IF colvalue.kind = "list" THEN colvalue.items[i]
                          ELSE colvalue.items[1])],
               rows, colname, colvalue, i + 1)

set_column(t, colname, colvalue) ==
  /\ CanCall
  /\ LET cols == ColumnsOf(t)
         rows == tables[t].rows
         ls == IF colname \notin Range(cols)
               THEN [lists EXCEPT ![tables[t].columns] = Append(cols, colname)]
               ELSE lists
         call == Call("set_column", t, "ok")
     IN /\ colname \notin Range(cols) => Len(cols) < MaxCols
        /\ IF colvalue.kind = "list" /\ Len(colvalue.items) # Len(rows)
           THEN Commit(tables, ls, dicts, Raised(call, "ValueError"))
           ELSE Commit(tables, ls, SetLoop(dicts, rows, colname, colvalue, 1), call)

\* --------------------------------------------------------- calculate_column
\* The row functions given as f: a constant, and the value of column "a" or
\* None (lambda r: r.get("a")).
RowFns == {"one", "get_a"}
ApplyRowFn(f, row) == IF f = "one" THEN 1 ELSE DictGetDefault(row, "a", None)

\* lines 200-204.
RECURSIVE CalcLoop(_, _, _, _, _)
CalcLoop(ds, rows, colname, f, i) ==
  IF i > Len(rows) THEN ds
  ELSE CalcLoop([ds EXCEPT ![rows[i]] = DictSet(@, colname, ApplyRowFn(f, @))],
                rows, colname, f, i + 1)

calculate_column(t, colname, f) ==
  /\ CanCall
  /\ LET cols == ColumnsOf(t)
         ls == IF colname \notin Range(cols)
               THEN [lists EXCEPT ![tables[t].columns] = Append(cols, colname)]
               ELSE lists
     IN /\ colname \notin Range(cols) => Len(cols) < MaxCols
        /\ Commit(tables, ls, CalcLoop(dicts, tables[t].rows, colname, f, 1),
                  Call("calculate_column", t, "ok"))

\* --------------------------------------------------------------- map_column
\* The value functions given as f: a constant, and a function that depends on
\* the old value (lambda v: 1 if v is None else None).
ValFns == {"one", "flip"}
ApplyValFn(f, v) == IF f = "one" THEN 1 ELSE IF v = None THEN 1 ELSE None

\* lines 220-224.  r[colname] raises KeyError for a row dict without the key.
RECURSIVE MapLoop(_, _, _, _, _)
MapLoop(ds, rows, colname, f, i) ==
  IF i > Len(rows) THEN [dicts |-> ds, status |-> "ok"]
  ELSE IF ~HasKey(ds[rows[i]], colname) THEN [dicts |-> ds, status |-> "KeyError"]
  ELSE MapLoop([ds EXCEPT ![rows[i]] =
                  DictSet(@, colname, ApplyValFn(f, DictGet(@, colname)))],
               rows, colname, f, i + 1)

map_column(t, colname, f) ==
  /\ CanCall
  /\ LET call == Call("map_column", t, "ok")
         r == MapLoop(dicts, tables[t].rows, colname, f, 1)
     IN IF colname \notin Range(ColumnsOf(t))
        THEN Commit(tables, lists, dicts, Raised(call, "ValueError"))
        ELSE Commit(tables, lists, r.dicts, Call("map_column", t, r.status))

\* --------------------------------------------------------------------- sort
\* keyconvert: None (the default), or a conversion (lambda v: -v).
KeyConverts == {"None", "neg"}

\* list.sort is stable: each row goes after the rows already placed whose
\* key does not come after its own.
RECURSIVE StableSort(_, _, _)
StableSort(rows, key, reverse) ==
  IF rows = <<>> THEN <<>>
  ELSE LET n == Len(rows)
           init == StableSort(SubSeq(rows, 1, n - 1), key, reverse)
           x == rows[n]
           Before(y) == IF reverse THEN key[y] >= key[x] ELSE key[y] <= key[x]
           k == Cardinality({i \in DOMAIN init : \A j \in 1..i : Before(init[j])})
       IN SubSeq(init, 1, k) \o <<x>> \o SubSeq(init, k + 1, Len(init))

\* lines 239-244.  The keys are computed first (KeyError for a row without
\* the column, TypeError for -None); comparing None with anything raises
\* TypeError, which with the row counts modelled happens in the scan of the
\* first run, before any row is moved.
sort(t, colname, reverse, keyconvert) ==
  /\ CanCall
  /\ LET rows == tables[t].rows
         call == Call("sort", t, "ok")
         raw == [id \in Range(rows) |-> DictGetDefault(dicts[id], colname, None)]
         key == [id \in Range(rows) |-> IF keyconvert = "neg" THEN 0 - raw[id] ELSE raw[id]]
     IN IF \E id \in Range(rows) : ~HasKey(dicts[id], colname)
        THEN Commit(tables, lists, dicts, Raised(call, "KeyError"))
        ELSE IF \/ keyconvert = "neg" /\ \E id \in Range(rows) : raw[id] = None
                \/ Len(rows) >= 2 /\ \E id \in Range(rows) : raw[id] = None
        THEN Commit(tables, lists, dicts, Raised(call, "TypeError"))
        ELSE Commit([tables EXCEPT ![t].rows = StableSort(rows, key, reverse)],
                    lists, dicts, call)

\* -------------------------------------------------------------- filter_rows
\* The predicates given as pred: lambda r: r[col] == val.
Preds == [col : Names, val : ValN]
PredHolds(pred, row) == DictGet(row, pred.col) = pred.val

\* A filter that keeps every row: what filter_rows is not.
FilterRowIdsAll(rows, ds, pred) == rows

\* line 261: [*filter(pred, self.rows)], the row dicts themselves.
FilterRowIds(rows, ds, pred) == SelectSeq(rows, LAMBDA id : PredHolds(pred, ds[id]))

\* lines 260-262.  The new table is built on the same column list object and
\* holds the row dicts of this table for which pred is true.
filter_rows(t, pred) ==
  /\ CanCall
  /\ LET rows == tables[t].rows
         call == Call("filter_rows", t, "ok")
         ft == [NewTable(tables[t].columns) EXCEPT
                  !.rows = FilterRowIds(rows, dicts, pred)]
     IN IF \E id \in Range(rows) : ~HasKey(dicts[id], pred.col)
        THEN Commit(tables, lists, dicts, Raised(call, "KeyError"))
        ELSE /\ Len(tables) < MaxTables
             /\ Commit(Append(tables, ft), lists, dicts, call)

\* ----------------------------------------------------------- select_columns
\* The columns given: "*", or a list of names.
Selections ==
  {[star |-> TRUE, columns |-> <<>>]}
    \cup {[star |-> FALSE, columns |-> s] : s \in SeqsUpTo(Names, 1)}

\* lines 277-290.  The select table gets a new column list; each row is then
\* handed to st.insert, a method Table does not define (AttributeError).
select_columns(t, sel) ==
  /\ CanCall
  /\ LET columns == IF sel.star THEN ColumnsOf(t) ELSE sel.columns
         lid == FreshIds(DOMAIN lists, 1)[1]
         call == Call("select_columns", t, "ok")
     IN IF tables[t].rows # <<>>
        THEN Commit(tables, lists, dicts, Raised(call, "AttributeError"))
        ELSE /\ Len(tables) < MaxTables
             /\ Commit(Append(tables, NewTable(lid)), Store(lists, lid, columns), dicts, call)

\* --------------------------------------------------------------------- join
Modes == {"inner", "left", "right", "outer", "cross"}
\* on: a column name (the same column in both tables) or a pair of names.
OnArgs == {<<"id">>, <<"id", "id2">>}
Lid(on) == on[1]
Rid(on) == IF Len(on) = 1 THEN on[1] ELSE on[2]

\* joinrow, lines 336-344: the id value, the other values of the left row,
\* the other values of the right row.
JoinRow(a, b, lcols, rcols, lid, rid) ==
  <<IF DictGet(a, lid) # None THEN DictGet(a, lid) ELSE DictGet(b, rid)>>
    \o [i \in DOMAIN SelectSeq(lcols, LAMBDA k : k # lid) |->
          DictGet(a, SelectSeq(lcols, LAMBDA k : k # lid)[i])]
    \o [i \in DOMAIN SelectSeq(rcols, LAMBDA k : k # rid) |->
          DictGet(b, SelectSeq(rcols, LAMBDA k : k # rid)[i])]
\* The lookups of joinrow that raise KeyError.
JoinRowRaises(a, b, lcols, rcols, lid, rid) ==
  \/ ~HasKey(a, lid)
  \/ DictGet(a, lid) = None /\ ~HasKey(b, rid)
  \/ \E k \in Range(lcols) \ {lid} : ~HasKey(a, k)
  \/ \E k \in Range(rcols) \ {rid} : ~HasKey(b, k)

\* allcolumns, lines 346-349: joinrow applied to the dicts that map each
\* column name to itself (no name is None, so the right id is never read).
AllColumns(lcols, rcols, lid, rid) ==
  <<lid>> \o SelectSeq(lcols, LAMBDA k : k # lid) \o SelectSeq(rcols, LAMBDA k : k # rid)

\* joined.add_rows(values), lines 367 and 386: one row through _addrow.
JoinedRow(allcolumns, values) == DictZip(allcolumns, values)

\* lines 361-374, the rows the loop over the left rows adds.
RECURSIVE MatchedRows(_, _, _, _, _, _)
MatchedRows(lrows, rrows, lcols, rcols, lid, rid) ==
  IF lrows = <<>> THEN <<>>
  ELSE LET row == Head(lrows)
           group == SelectSeq(rrows, LAMBDA r : DictGet(r, rid) = DictGet(row, lid))
       IN [i \in DOMAIN group |->
             JoinedRow(AllColumns(lcols, rcols, lid, rid),
                       JoinRow(row, group[i], lcols, rcols, lid, rid))]
            \o MatchedRows(Tail(lrows), rrows, lcols, rcols, lid, rid)

\* left_unmatched, lines 371-374.
LeftUnmatched(lrows, rrows, lid, rid, mode) ==
  IF mode \in {"left", "outer"}
  THEN SelectSeq(lrows, LAMBDA row : \A i \in DOMAIN rrows :
                                       DictGet(rrows[i], rid) # DictGet(row, lid))
  ELSE <<>>

\* lines 382-386: the lookup is walked in the order its ids were first seen
\* in the right table; the rows of an id no left row had are added.
RECURSIVE RightUnmatchedRows(_, _, _, _, _, _, _)
RightUnmatchedRows(ids, lrows, rrows, lcols, rcols, lid, rid) ==
  IF ids = <<>> THEN <<>>
  ELSE LET id == Head(ids)
           rows == SelectSeq(rrows, LAMBDA r : DictGet(r, rid) = id)
           dummyL == DictZip(lcols, [i \in DOMAIN lcols |-> None])
           rest == RightUnmatchedRows(Tail(ids), lrows, rrows, lcols, rcols, lid, rid)
       IN IF \E i \in DOMAIN lrows : DictGet(lrows[i], lid) = id
          THEN rest
          ELSE [i \in DOMAIN rows |->
                  JoinedRow(AllColumns(lcols, rcols, lid, rid),
                            JoinRow(dummyL, rows[i], lcols, rcols, lid, rid))] \o rest

\* join, lines 317-387, as a function of the two tables: the exception raised,
\* or the columns and rows of the joined table.
JoinOutcome(lcols, lrows, rcols, rrows, lid, rid, mode) ==
  LET allcolumns == AllColumns(lcols, rcols, lid, rid)
      dummyR == DictZip(rcols, [i \in DOMAIN rcols |-> None])
      failed(status) == [status |-> status, columns |-> <<>>, rows |-> <<>>]
  IN IF \E i \in DOMAIN rrows : ~HasKey(rrows[i], rid) THEN failed("KeyError")
     ELSE IF lid \notin Range(lcols) THEN failed("KeyError")
     ELSE IF \E i \in DOMAIN lrows :
               \/ ~HasKey(lrows[i], lid)
               \/ \E j \in DOMAIN rrows :
                    /\ DictGet(rrows[j], rid) = DictGet(lrows[i], lid)
                    /\ JoinRowRaises(lrows[i], rrows[j], lcols, rcols, lid, rid)
     THEN failed("KeyError")
     \* joined.insert, line 379: Table defines no insert method.
     ELSE IF LeftUnmatched(lrows, rrows, lid, rid, mode) # <<>>
     THEN failed("AttributeError")
     ELSE [status |-> "ok",
           columns |-> allcolumns,
           rows |-> MatchedRows(lrows, rrows, lcols, rcols, lid, rid)
                      \o IF mode \in {"right", "outer"}
                         THEN RightUnmatchedRows(
                                Dedup([i \in DOMAIN rrows |-> DictGet(rrows[i], rid)], {}),
                                lrows, rrows, lcols, rcols, lid, rid)
                         ELSE <<>>]

\* j = l.join(r, on, mode): the joined table is a new table with a new column
\* list and new row dicts; it is bound to j (table 3), replacing the table
\* of an earlier join.  A call that raises leaves j as it was.
join(l, r, on, mode) ==
  /\ CanCall
  /\ LET out == JoinOutcome(ColumnsOf(l), RowsOf(l), ColumnsOf(r), RowsOf(r),
                            Lid(on), Rid(on), mode)
         kept == SubSeq(tables, 1, 2)
         lid == FreshIds(DOMAIN lists, 1)[1]
         ids == FreshIds(DOMAIN dicts, Len(out.rows))
         ds == [j \in DOMAIN dicts \cup Range(ids) |->
                  IF j \in Range(ids) THEN out.rows[IndexOf(ids, j)] ELSE dicts[j]]
     IN IF out.status # "ok"
        THEN Commit(tables, lists, dicts, Call("join", l, out.status))
        ELSE Commit(Append(kept, [columns |-> lid, rows |-> ids]),
                    Store(lists, lid, out.columns), ds, Call("join", l, "ok"))

\* ------------------------------------------------------------ specification
InitColumns == {<<"a">>, <<"a", "b">>}

Init ==
  /\ \E cols \in InitColumns : lists = <<cols>>
  /\ tables = <<NewTable(1)>>
  /\ dicts = <<>>
  /\ last = Call("Table", 1, "ok")
  /\ calls = 0

Next ==
  \/ \E t \in DOMAIN tables : \E datalist \in DataLists(ColumnsOf(t)) :
        add_rows(t, datalist)
  \/ \E t \in DOMAIN tables, oldname \in Names, newname \in Names :
        rename_column(t, oldname, newname)
  \/ \E t \in DOMAIN tables, colname \in Names : remove_column(t, colname)
  \/ \E t \in DOMAIN tables, colname \in Names, colvalue \in ColValues :
        set_column(t, colname, colvalue)
  \/ \E t \in DOMAIN tables, colname \in Names, f \in RowFns :
        calculate_column(t, colname, f)
  \/ \E t \in DOMAIN tables, colname \in Names, f \in ValFns :
        map_column(t, colname, f)
  \/ \E t \in DOMAIN tables, colname \in Names, reverse \in BOOLEAN,
        keyconvert \in KeyConverts : sort(t, colname, reverse, keyconvert)
  \/ \E t \in DOMAIN tables, pred \in Preds : filter_rows(t, pred)
  \/ \E t \in DOMAIN tables, sel \in Selections : select_columns(t, sel)


Spec == Init /\ [][Next]_vars

\* The calls a filtered table is made and used with.
ViewNext ==
  \/ \E t \in DOMAIN tables : \E datalist \in DataLists(ColumnsOf(t)) :
        add_rows(t, datalist)
  \/ \E t \in DOMAIN tables, colname \in Names, colvalue \in ColValues :
        set_column(t, colname, colvalue)
  \/ \E t \in DOMAIN tables, colname \in Names, f \in ValFns :
        map_column(t, colname, f)
  \/ \E t \in DOMAIN tables, pred \in Preds : filter_rows(t, pred)

ViewSpec == Init /\ [][ViewNext]_vars

\* Two tables to join: with no column name in common, with a common column
\* that is not the id, and with the id column named alike in both.
JoinColumns ==
  {<<<<"id", "b">>, <<"id2", "x">>>>,
   <<<<"id", "x">>, <<"id2", "x">>>>,
   <<<<"id", "b">>, <<"id", "x">>>>}

JoinInit ==
  /\ \E c \in JoinColumns : lists = <<c[1], c[2]>>
  /\ tables = <<NewTable(1), NewTable(2)>>
  /\ dicts = <<>>
  /\ last = Call("Table", 2, "ok")
  /\ calls = 0

JoinNext ==
  \/ \E t \in {1, 2} : \E datalist \in DataLists(ColumnsOf(t)) : add_rows(t, datalist)
  \/ \E on \in OnArgs, mode \in Modes : join(1, 2, on, mode)

JoinSpec == JoinInit /\ [][JoinNext]_vars

\* ------------------------------------------------------------------ claims
\* What a table holds: its column list and its records, in order.
Content(tbls, ls, ds, t) ==
  [columns |-> ls[tbls[t].columns],
   rows |-> [i \in DOMAIN tbls[t].rows |-> ds[tbls[t].rows[i]]]]
\* Every table holds after the step what it held before it.
ContentsUnchanged ==
  /\ DOMAIN tables' = DOMAIN tables
  /\ \A t \in DOMAIN tables :
       Content(tables', lists', dicts', t) = Content(tables, lists, dicts, t)
AllColumnsArg == [star |-> TRUE, columns |-> <<>>]

\* C1: in every state reached by the public calls, made on a table or on a
\* filtered table obtained from it, every record of every table has exactly
\* the table's current columns as its keys.
\* It is stated of the calls that return, made where every column list holds
\* distinct names: such a call made where it holds leaves it holding.
DistinctNames(cols) == \A i, j \in DOMAIN cols : cols[i] = cols[j] => i = j
KeysEqualColumns(tbls, ls, ds) ==
  \A t \in DOMAIN tbls : \A i \in DOMAIN tbls[t].rows :
    Range(DictKeys(ds[tbls[t].rows[i]])) = Range(ls[tbls[t].columns])
C1_RecordKeysEqualColumns ==
  [][(/\ KeysEqualColumns(tables, lists, dicts)
      /\ \A l \in DOMAIN lists : DistinctNames(lists[l])
      /\ last'.status = "ok")
       => KeysEqualColumns(tables', lists', dicts')]_vars

\* C7: a set_column or add_rows call that raises ValueError (a list of the
\* wrong length) leaves the column list and the records of every table as
\* they were before the call.
C7_FailedCallChangesNothing ==
  [][(last'.op \in {"set_column", "add_rows"} /\ last'.status = "ValueError")
       => ContentsUnchanged]_vars

\* C8: select_columns("*") returns, for every table, a new table with the
\* same columns and the same rows in the same order, sharing neither its
\* column list nor any record with another table.
C8_SelectAllCopies ==
  [][\A t \in DOMAIN tables :
       select_columns(t, AllColumnsArg) =>
         /\ last'.status = "ok"
         /\ Len(tables') = Len(tables) + 1
         /\ Content(tables', lists', dicts', Len(tables')) = Content(tables, lists, dicts, t)
         /\ \A u \in DOMAIN tables :
              /\ tables'[u].columns # tables'[Len(tables')].columns
              /\ Range(tables'[u].rows) \cap Range(tables'[Len(tables')].rows) = {}]_vars

\* C9: filter_rows(pred) returns a table holding, in the original order, the
\* very record objects of the original for which pred is true; a value changed
\* through any table (map_column, or set_column on an existing column) is the
\* value every table holding that record object sees, the records the called
\* table does not hold are unchanged, and no table's row order changes.
C9_FilterStep ==
  \A t \in DOMAIN tables, pred \in Preds :
    (/\ last' = Call("filter_rows", t, "ok")
     /\ filter_rows(t, pred)) =>
      /\ Len(tables') = Len(tables) + 1
      /\ \A u \in DOMAIN tables : tables'[u] = tables[u]
      /\ dicts' = dicts
      /\ LET rows == tables'[t].rows
             kept == tables'[Len(tables')].rows
         IN /\ Range(kept) = {id \in Range(rows) : PredHolds(pred, dicts'[id])}
            /\ \A i, j \in DOMAIN kept :
                 i < j => IndexOf(rows, kept[i]) < IndexOf(rows, kept[j])
C9_ValueStep(v, colname, new) ==
  /\ \A u \in DOMAIN tables : tables'[u] = tables[u]
  /\ \A id \in DOMAIN dicts :
       IF id \in Range(tables[v].rows)
       THEN /\ DictGet(dicts'[id], colname) = new[id]
            /\ DictDel(dicts'[id], colname) = DictDel(dicts[id], colname)
       ELSE dicts'[id] = dicts[id]
C9_FilteredTableSharesRecords ==
  [][/\ C9_FilterStep
     /\ \A v \in DOMAIN tables, colname \in Names, f \in ValFns :
          (/\ last' = Call("map_column", v, "ok")
           /\ map_column(v, colname, f)) =>
            C9_ValueStep(v, colname,
                         [id \in Range(tables[v].rows) |->
                            ApplyValFn(f, DictGet(dicts[id], colname))])
     /\ \A v \in DOMAIN tables, colname \in Names, colvalue \in ColValues :
          (/\ last' = Call("set_column", v, "ok")
           /\ colname \in Range(ColumnsOf(v))
           /\ set_column(v, colname, colvalue)) =>
            C9_ValueStep(v, colname,
                         [id \in Range(tables[v].rows) |->
                            IF colvalue.kind = "list"
                            THEN colvalue.items[IndexOf(tables[v].rows, id)]
                            ELSE colvalue.items[1]])]_vars
\* A state reached by map_column through a filtered table (table 2) that
\* holds some but not all of the records of the table it was filtered from.
C9_Witness ==
  /\ last.op = "map_column" /\ last.status = "ok" /\ last.tbl = 2
  /\ Len(tables) = 2
  /\ tables[2].rows # <<>>
  /\ Range(tables[2].rows) \subseteq Range(tables[1].rows)
  /\ Range(tables[2].rows) # Range(tables[1].rows)

\* C10: rename_column, remove_column and map_column raise when the named
\* column is not in the table's column list, whatever the table holds, and
\* leave the columns and records of every table unchanged.
C10_MissingColumnRaises ==
  [][\A t \in DOMAIN tables, colname \in Names :
       (/\ colname \notin Range(ColumnsOf(t))
        /\ \/ remove_column(t, colname)
           \/ \E newname \in Names : rename_column(t, colname, newname)
           \/ \E f \in ValFns : map_column(t, colname, f))
         => (last'.status # "ok" /\ ContentsUnchanged)]_vars

\* ------------------------------------------------------------- join claims
\* j = L.join(R, on, mode) with L table 1, R table 2 and j table 3; the key
\* columns named by on are columns of L and of R.
KeysPresent(on) ==
  Lid(on) \in Range(ColumnsOf(1)) /\ Rid(on) \in Range(ColumnsOf(2))
\* The values of a record in the columns other than the key column, in the
\* order of the column list.
OtherValues(row, cols, key) ==
  LET others == SelectSeq(cols, LAMBDA k : k # key)
  IN [i \in DOMAIN others |-> DictGet(row, others[i])]
Nones(cols, key) ==
  [i \in DOMAIN SelectSeq(cols, LAMBDA k : k # key) |-> None]
HasMatch(row, key, rows, otherkey) ==
  \E i \in DOMAIN rows : DictGet(rows[i], otherkey) = DictGet(row, key)
\* One row per matching pair: the left records in order, and for each the
\* right records with its key in order.
RECURSIVE MatchedValues(_, _, _, _, _, _)
MatchedValues(lrows, rrows, lcols, rcols, lk, rk) ==
  IF lrows = <<>> THEN <<>>
  ELSE LET l == Head(lrows)
           rs == SelectSeq(rrows, LAMBDA r : DictGet(r, rk) = DictGet(l, lk))
       IN [j \in DOMAIN rs |->
             <<DictGet(l, lk)>> \o OtherValues(l, lcols, lk) \o OtherValues(rs[j], rcols, rk)]
            \o MatchedValues(Tail(lrows), rrows, lcols, rcols, lk, rk)
\* One row per left record without a match, in order, None on the right.
LeftUnmatchedValues(lrows, rrows, lcols, rcols, lk, rk) ==
  LET ls == SelectSeq(lrows, LAMBDA l : ~HasMatch(l, lk, rrows, rk))
  IN [i \in DOMAIN ls |->
        <<DictGet(ls[i], lk)>> \o OtherValues(ls[i], lcols, lk) \o Nones(rcols, rk)]
\* One row per right record without a match, None on the left, ordered by
\* the first appearance of the key in the right table, then by position.
RightUnmatchedValues(lrows, rrows, lcols, rcols, lk, rk) ==
  LET rs == SelectSeq(rrows, LAMBDA r : ~HasMatch(r, rk, lrows, lk))
      keys == Dedup([i \in DOMAIN rs |-> DictGet(rs[i], rk)], {})
      grouped == Flatten([k \in DOMAIN keys |->
                            SelectSeq(rs, LAMBDA r : DictGet(r, rk) = keys[k])])
  IN [i \in DOMAIN grouped |->
        <<DictGet(grouped[i], rk)>> \o Nones(lcols, lk) \o OtherValues(grouped[i], rcols, rk)]
\* The joined table after the step: its rows as value lists.
JoinedValues ==
  [i \in DOMAIN tables'[3].rows |-> DictValues(dicts'[tables'[3].rows[i]])]
Returned == last'.status = "ok" /\ Len(tables') = 3

\* C2: an inner join on key columns of the two tables returns exactly one row
\* per matching pair, left records in order and for each its matches in the
\* right table's order, each row holding the key, the left record's other
\* values and the right record's other values.
C2_InnerJoinRows ==
  [][\A on \in OnArgs :
       (KeysPresent(on) /\ join(1, 2, on, "inner")) =>
         /\ Returned
         /\ JoinedValues = MatchedValues(RowsOf(1), RowsOf(2), ColumnsOf(1), ColumnsOf(2),
                                         Lid(on), Rid(on))]_vars

\* C3: a left or outer join returns a table that holds, right after the
\* matched rows, one row per left record without a match, in the left
\* table's order, with None in every right-side column.
C3_LeftJoinKeepsUnmatched ==
  [][\A on \in OnArgs, mode \in {"left", "outer"} :
       (KeysPresent(on) /\ join(1, 2, on, mode)) =>
         /\ Returned
         /\ LET m == Len(MatchedValues(RowsOf(1), RowsOf(2), ColumnsOf(1), ColumnsOf(2),
                                       Lid(on), Rid(on)))
                u == LeftUnmatchedValues(RowsOf(1), RowsOf(2), ColumnsOf(1), ColumnsOf(2),
                                         Lid(on), Rid(on))
            IN /\ Len(JoinedValues) >= m + Len(u)
               /\ SubSeq(JoinedValues, m + 1, m + Len(u)) = u]_vars

\* C4: a right or outer join ends, after the matched rows and any
\* left-unmatched rows, with one row per right record without a match and no
\* other row: the right key, None in the other left-side columns, the right
\* record's values.
C4_RightJoinAddsUnmatched ==
  [][\A on \in OnArgs, mode \in {"right", "outer"} :
       (KeysPresent(on) /\ join(1, 2, on, mode)) =>
         /\ Returned
         /\ LET m == Len(MatchedValues(RowsOf(1), RowsOf(2), ColumnsOf(1), ColumnsOf(2),
                                       Lid(on), Rid(on)))
                u == IF mode = "outer"
                     THEN Len(LeftUnmatchedValues(RowsOf(1), RowsOf(2), ColumnsOf(1),
                                                  ColumnsOf(2), Lid(on), Rid(on)))
                     ELSE 0
                ru == RightUnmatchedValues(RowsOf(1), RowsOf(2), ColumnsOf(1), ColumnsOf(2),
                                           Lid(on), Rid(on))
            IN /\ Len(JoinedValues) = m + u + Len(ru)
               /\ SubSeq(JoinedValues, m + u + 1, m + u + Len(ru)) = ru]_vars

\* C5: in every mode the table join returns has the columns [lk], L's other
\* columns, R's columns other than rk, and each of its records has exactly
\* these columns as its keys, one value per column.
C5_JoinedColumnsAndKeys ==
  [][\A on \in OnArgs, mode \in {"inner", "left", "right", "outer"} :
       (KeysPresent(on) /\ join(1, 2, on, mode) /\ Returned) =>
         LET columns == <<Lid(on)>> \o SelectSeq(ColumnsOf(1), LAMBDA k : k # Lid(on))
                          \o SelectSeq(ColumnsOf(2), LAMBDA k : k # Rid(on))
         IN /\ lists'[tables'[3].columns] = columns
            /\ \A i \in DOMAIN tables'[3].rows :
                 DictKeys(dicts'[tables'[3].rows[i]]) = columns]_vars

\* C6: join called with a mode that is none of inner, left, right, outer
\* raises; it returns no table.
C6_InvalidModeRaises ==
  [][\A on \in OnArgs, mode \in Modes \ {"inner", "left", "right", "outer"} :
       join(1, 2, on, mode) => last'.status # "ok"]_vars

====
